---------------------------- MODULE Spec2Model ----------------------------
(***************************************************************************)
(* Model of the backport action (src/backport/backport.ts) and of the      *)
(* enterprise branch-sync action (EnterpriseCheck).                        *)
(*                                                                         *)
(* One invocation of backport() is a sequential program: pc is its         *)
(* position, calls is the ordered log of every external call it has made   *)
(* (git subprocess, cloneRepo, betterer, GitHub REST), each with the       *)
(* outcome the environment gave it.  Every external call can succeed or    *)
(* throw; what the code does next is translated from the source.           *)
(***************************************************************************)
EXTENDS Integers, Sequences, FiniteSets, TLC

(***************************************************************************)
(* Bounds of the model.                                                    *)
(***************************************************************************)
MaxLabels == 3

(***************************************************************************)
(* Program constants (backport.ts:11-14).                                  *)
(***************************************************************************)
BETTERER_RESULTS_PATH == ".betterer.results"
backportLabels == <<"type/docs", "type/bug", "product-approved">>
missingLabels == "missing-labels"

(***************************************************************************)
(* Strings.  A TLA+ string is a sequence of characters: Len, SubSeq and \o *)
(* work on it, so the regular expression and trim() are computed on the    *)
(* characters, as the code computes them.                                  *)
(***************************************************************************)
CharAt(s, i) == SubSeq(s, i, i)

RECURSIVE WordEnd(_, _)
\* [^ ]+ is greedy: the index just past the longest run of non-space
\* characters of s that starts at i (i itself when there is none).
WordEnd(s, i) ==
    IF i > Len(s) \/ CharAt(s, i) = " " THEN i ELSE WordEnd(s, i + 1)

NoMatch == [found |-> FALSE, base |-> "", hasHead |-> FALSE, head |-> ""]

\* One attempt of /backport ([^ ]+)(?: ([^ ]+))?$/ with the match starting at
\* character i.  After the greedy base either the string ends, or a space, a
\* second run of non-space characters and the end follow; backtracking into
\* either run cannot reach the end of the string, so nothing else matches.
labelRegExpAt(s, i) ==
    LET b == i + 9
        e == WordEnd(s, b)
        h == e + 1
        f == WordEnd(s, h)
    IN  IF i + 8 > Len(s) THEN NoMatch
        ELSE IF SubSeq(s, i, i + 8) # "backport " THEN NoMatch
        ELSE IF e = b THEN NoMatch
        ELSE IF e > Len(s)
             THEN [found |-> TRUE, base |-> SubSeq(s, b, e - 1),
                   hasHead |-> FALSE, head |-> ""]
        ELSE IF f > h /\ f > Len(s)
             THEN [found |-> TRUE, base |-> SubSeq(s, b, e - 1),
                   hasHead |-> TRUE, head |-> SubSeq(s, h, f - 1)]
        ELSE NoMatch

RECURSIVE labelRegExpFrom(_, _)
\* The pattern is not anchored at the start: the leftmost start that matches wins.
labelRegExpFrom(s, i) ==
    IF i > Len(s) THEN NoMatch
    ELSE IF labelRegExpAt(s, i).found THEN labelRegExpAt(s, i)
    ELSE labelRegExpFrom(s, i + 1)

\* labelRegExp.exec(s); found = FALSE stands for null.
labelRegExpExec(s) == labelRegExpFrom(s, 1)

\* labelRegExp.test(s)
labelRegExpTest(s) == labelRegExpExec(s).found

Includes(seq, x) == \E i \in 1..Len(seq) : seq[i] = x

(***************************************************************************)
(* getLabelNames (backport.ts:16-33).                                      *)
(***************************************************************************)
getLabelNamesOfPR(action, label, labels) == labels

getLabelNames(action, label, labels) ==
    CASE action = "closed" -> labels
      [] action = "labeled" -> <<label>>
      [] OTHER -> <<>>

(***************************************************************************)
(* getMatchedBackportLabels (backport.ts:35-45): for each PR label in      *)
(* order, for each approval label in order, push on equality.              *)
(***************************************************************************)
RECURSIVE MatchOne(_, _, _)
MatchOne(prLabel, approvals, j) ==
    IF j > Len(approvals) THEN <<>>
    ELSE (IF approvals[j] = prLabel THEN <<approvals[j]>> ELSE <<>>)
         \o MatchOne(prLabel, approvals, j + 1)

RECURSIVE MatchFrom(_, _, _)
MatchFrom(labelsPR, approvals, i) ==
    IF i > Len(labelsPR) THEN <<>>
    ELSE MatchOne(labelsPR[i], approvals, 1) \o MatchFrom(labelsPR, approvals, i + 1)

getMatchedBackportLabels(labelsPR, approvals) == MatchFrom(labelsPR, approvals, 1)

(***************************************************************************)
(* getBackportBaseToHead (backport.ts:47-70).  The object baseToHead is a  *)
(* sequence of [base, head] entries in the order Object.entries lists      *)
(* them: insertion order, an assignment to an existing key keeping the     *)
(* key's place.  (Base names here are branch names, not array indices.)    *)
(***************************************************************************)
HasKey(map, base) == \E i \in 1..Len(map) : map[i].base = base

PutFirstWins(map, base, head) ==
    IF HasKey(map, base) THEN map
    ELSE Append(map, [base |-> base, head |-> head])

\* baseToHead[base] = head
PutEntry(map, base, head) ==
    IF HasKey(map, base)
    THEN [i \in 1..Len(map) |->
            IF map[i].base = base THEN [base |-> base, head |-> head] ELSE map[i]]
    ELSE Append(map, [base |-> base, head |-> head])

\* head = `backport-${pullRequestNumber}-to-${base}` unless the label gives one
DefaultHead(pullRequestNumber, base) ==
    "backport-" \o ToString(pullRequestNumber) \o "-to-" \o base

RECURSIVE BaseToHeadFrom(_, _, _, _)
BaseToHeadFrom(names, i, pullRequestNumber, map) ==
    IF i > Len(names) THEN map
    ELSE LET m == labelRegExpExec(names[i])
         IN  IF m.found
             THEN BaseToHeadFrom(names, i + 1, pullRequestNumber,
                    PutEntry(map, m.base,
                        IF m.hasHead THEN m.head
                        ELSE DefaultHead(pullRequestNumber, m.base)))
             ELSE BaseToHeadFrom(names, i + 1, pullRequestNumber, map)

getBackportBaseToHead(action, label, labels, pullRequestNumber) ==
    BaseToHeadFrom(getLabelNames(action, label, labels), 1, pullRequestNumber, <<>>)


(***************************************************************************)
(* trim() and the stdout of `git diff --name-only --diff-filter=U`.        *)
(***************************************************************************)
IsSpace(c) == c \in {" ", "\n", "\t", "\r"}

RECURSIVE TrimLeft(_)
TrimLeft(s) ==
    IF Len(s) > 0 /\ IsSpace(CharAt(s, 1)) THEN TrimLeft(SubSeq(s, 2, Len(s))) ELSE s

RECURSIVE TrimRight(_)
TrimRight(s) ==
    IF Len(s) > 0 /\ IsSpace(CharAt(s, Len(s)))
    THEN TrimRight(SubSeq(s, 1, Len(s) - 1)) ELSE s

Trim(s) == TrimLeft(TrimRight(s))

RECURSIVE NameOnlyOutput(_)
\* one path per line
NameOnlyOutput(paths) ==
    IF paths = <<>> THEN ""
    ELSE paths[1] \o "\n" \o NameOnlyOutput(Tail(paths))

RECURSIVE Contains(_, _, _)
\* s has the substring t at or after position i
Contains(s, t, i) ==
    IF i + Len(t) - 1 > Len(s) THEN FALSE
    ELSE IF SubSeq(s, i, i + Len(t) - 1) = t THEN TRUE
    ELSE Contains(s, t, i + 1)

isBettererConflictIncludes(stdout) == Contains(stdout, BETTERER_RESULTS_PATH, 1)

\* isBettererConflict (backport.ts:101-106), given the stdout of the git diff
isBettererConflict(stdout) == Trim(stdout) = BETTERER_RESULTS_PATH

(***************************************************************************)
(* EnterpriseCheck (src/unnamed/part_000): the enterprise branch sync.     *)
(*                                                                         *)
(* The enterprise repository is the set of its branches (each at its own   *)
(* commit) and its refs.  repos.getBranch resolves with the branch when    *)
(* the branch exists and rejects when it does not; git.createRef rejects   *)
(* with 'Reference already exists' exactly when the ref exists, and both   *)
(* createRef and updateRef can be rejected for another reason.             *)
(***************************************************************************)
EnterpriseBranches == { "feature", "v9.2.x", "main" }

\* the commit a branch of the enterprise repository is at
ShaOf(b) == "sha-of-" \o b

NoBranch == [name |-> "", sha |-> ""]

\* getBranch (lines 47-61): res.data, or null once the call is rejected.  The
\* code takes every rejection for a missing branch (lines 57-60); the lookup
\* here is rejected only for a branch that does not exist.
getBranch(existing, b) ==
    IF b \in existing THEN [name |-> b, sha |-> ShaOf(b)] ELSE NoBranch

targetBranchIgnored(target_branch) == "main"

\* line 32: getInput('target_branch') || 'main'
targetBranchOrMain(target_branch) ==
    IF target_branch = "" THEN "main" ELSE target_branch

\* line 67: the ref createRef is given; line 76: the ref updateRef is given
CreateRefName(prNumber, b, sourceSha) ==
    "refs/heads/prc-" \o prNumber \o "-" \o sourceSha \o "/" \o b
UpdateRefName(prNumber, b, sourceSha) ==
    "heads/prc-" \o prNumber \o "-" \o sourceSha \o "/" \o b

\* The ref a name given to the git API denotes: createRef takes the fully
\* qualified name, updateRef the name without the leading refs/.
Qualified(name) ==
    IF Len(name) >= 5 /\ SubSeq(name, 1, 5) = "refs/" THEN name ELSE "refs/" \o name

VARIABLES
    inputs,      \* getInput: source_branch, pr_number, source_sha, target_branch
    branches,    \* enterprise repository: the branches that exist
    refs,        \* enterprise repository: qualified ref name -> commit, as a set of pairs
    syncPc,      \* position in onTriggered / createOrUpdateRef
    branch,      \* local of onTriggered
    syncCalls,   \* log of the GitHub calls made
    syncError    \* message of the error onTriggered threw ("" when none)

evars == << inputs, branches, refs, syncPc, branch, syncCalls, syncError >>

NoInputs == [source_branch |-> "", pr_number |-> "", source_sha |-> "", target_branch |-> ""]

\* the enterprise action is not running
SyncIdle ==
    /\ inputs = NoInputs
    /\ branches = {}
    /\ refs = {}
    /\ syncPc = "idle"
    /\ branch = NoBranch
    /\ syncCalls = <<>>
    /\ syncError = ""

RefExists(name) == \E r \in refs : r.ref = Qualified(name)

\* the refs after `name` is set to sha
SetRef(name, sha) ==
    { r \in refs : r.ref # Qualified(name) } \cup { [ref |-> Qualified(name), sha |-> sha] }

\* err: the message of the error the call was rejected with ("" when it resolved)
SyncCall(op, a, err) == [op |-> op, args |-> a, ok |-> err = "", err |-> err]

ValidateSourceOnly ==
    /\ syncPc = "start"
    /\ IF inputs.source_branch = ""
       THEN syncPc' = "threw" /\ syncError' = "Missing source branch"
       ELSE syncPc' = "getSource" /\ UNCHANGED syncError
    /\ UNCHANGED << inputs, branches, refs, branch, syncCalls >>

\* lines 12-23: the required inputs
Validate ==
    /\ syncPc = "start"
    /\ IF inputs.source_branch = ""
       THEN syncPc' = "threw" /\ syncError' = "Missing source branch"
       ELSE IF inputs.pr_number = ""
       THEN syncPc' = "threw" /\ syncError' = "Missing OSS PR number"
       ELSE IF inputs.source_sha = ""
       THEN syncPc' = "threw" /\ syncError' = "Missing OSS source SHA"
       ELSE syncPc' = "getSource" /\ UNCHANGED syncError
    /\ UNCHANGED << inputs, branches, refs, branch, syncCalls >>

\* a getBranch call of onTriggered: found, go on to createOrUpdateRef
Lookup(b, notFound) ==
    /\ branch' = getBranch(branches, b)
    /\ syncCalls' = Append(syncCalls,
           SyncCall("repos.getBranch", <<b>>, IF branch' # NoBranch THEN "" ELSE "Branch not found"))
    /\ syncPc' = IF branch' # NoBranch THEN "createRef" ELSE notFound

\* lines 24-29
GetSourceBranch ==
    /\ syncPc = "getSource"
    /\ Lookup(inputs.source_branch, "getTarget")
    /\ UNCHANGED << inputs, branches, refs, syncError >>

\* lines 32-38
GetTargetBranch ==
    /\ syncPc = "getTarget"
    /\ Lookup(targetBranchOrMain(inputs.target_branch), "getMain")
    /\ UNCHANGED << inputs, branches, refs, syncError >>

\* lines 39-42
GetMainBranch ==
    /\ syncPc = "getMain"
    /\ Lookup("main", "threw")
    /\ syncError' = IF branch' = NoBranch THEN "error retrieving main branch" ELSE syncError
    /\ UNCHANGED << inputs, branches, refs >>

\* line 72: is the error caught the one createOrUpdateRef recovers from
Recovers(isRequestError, message) ==
    isRequestError /\ message = "Reference already exists"

\* createOrUpdateRef, lines 63-70 and 81-83: git.createRef
CreateRef ==
    /\ syncPc = "createRef"
    /\ LET name == CreateRefName(inputs.pr_number, inputs.source_branch, inputs.source_sha)
       IN  \E outcome \in {"created", "Reference already exists", "Bad credentials"} :
             /\ outcome = "created" => ~RefExists(name)
             /\ outcome = "Reference already exists" => RefExists(name)
             /\ syncCalls' = Append(syncCalls,
                    SyncCall("git.createRef", <<name, branch.sha>>,
                             IF outcome = "created" THEN "" ELSE outcome))
             /\ IF outcome = "created"
                THEN /\ refs' = SetRef(name, branch.sha)
                     /\ syncPc' = "returned"
                     /\ UNCHANGED syncError
                ELSE IF Recovers(TRUE, outcome)
                THEN /\ syncPc' = "updateRef"
                     /\ UNCHANGED << refs, syncError >>
                ELSE /\ syncPc' = "threw"
                     /\ syncError' = outcome
                     /\ UNCHANGED refs
    /\ UNCHANGED << inputs, branches, branch >>

\* createOrUpdateRef, lines 73-79: git.updateRef with force
UpdateRef ==
    /\ syncPc = "updateRef"
    /\ LET name == UpdateRefName(inputs.pr_number, inputs.source_branch, inputs.source_sha)
       IN  \E outcome \in {"updated", "Bad credentials"} :
             /\ outcome = "updated" => RefExists(name)
             /\ syncCalls' = Append(syncCalls,
                    SyncCall("git.updateRef", <<name, branch.sha, "force">>,
                             IF outcome = "updated" THEN "" ELSE outcome))
             /\ refs' = IF outcome = "updated" THEN SetRef(name, branch.sha) ELSE refs
             /\ syncPc' = IF outcome = "updated" THEN "returned" ELSE "threw"
             /\ syncError' = IF outcome = "updated" THEN syncError ELSE outcome
    /\ UNCHANGED << inputs, branches, branch >>

SourceBranches == { "", "feature" }
PrNumbers == { "", "42" }
SourceShas == { "", "abc123" }
TargetBranches == { "", "v9.2.x", "main" }
\* commits the ref may be at before the action runs
OldShas == { "sha-before" }

\* the state after construction of the enterprise action
InitEnterprise ==
    /\ \E sb \in SourceBranches, pr \in PrNumbers, ss \in SourceShas, tb \in TargetBranches :
          inputs = [source_branch |-> sb, pr_number |-> pr, source_sha |-> ss,
                    target_branch |-> tb]
    /\ branches \in SUBSET EnterpriseBranches
    /\ refs \in { {} } \cup
          { { [ref |-> CreateRefName(inputs.pr_number, inputs.source_branch,
                                      inputs.source_sha), sha |-> old] } : old \in OldShas }
    /\ syncPc = "start"
    /\ branch = NoBranch
    /\ syncCalls = <<>>
    /\ syncError = ""

(***************************************************************************)
(* The inputs of one invocation.                                           *)
(***************************************************************************)
LabelUniverse ==
    { "backport v1", "backport v2", "backport v1 h1",
      "type/bug", "product-approved", "missing-labels", "wip" }

\* The labels of a pull request: distinct names, in the payload's order.
LabelLists ==
    { s \in UNION { [1..n -> LabelUniverse] : n \in 0..MaxLabels } :
        \A i, j \in 1..Len(s) : i # j => s[i] # s[j] }

Range(seq) == { seq[i] : i \in 1..Len(seq) }

\* action and label of the webhook event, for a pull request carrying `labels`:
\* `labeled` names a label the PR now carries, `unlabeled` one it no longer
\* carries, the other actions name none ("" stands for an absent label).
Events(labels) ==
    { [action |-> "closed", label |-> ""], [action |-> "opened", label |-> ""] }
    \cup { [action |-> "labeled", label |-> l] : l \in Range(labels) }
    \cup { [action |-> "unlabeled", label |-> l] : l \in LabelUniverse \ Range(labels) }

PullRequestNumbers == { 42 }
\* The inputs that decide only whether an optional call of backportOnce is
\* made: the payload's milestone and merged_by, and the caller's labelsToAdd.
Rest ==
    { [milestone |-> TRUE, merged_by |-> TRUE, labelsToAdd |-> <<"backport">>],
      [milestone |-> FALSE, merged_by |-> FALSE, labelsToAdd |-> <<>>] }
UnmergedLists ==
    { <<>>, <<BETTERER_RESULTS_PATH>>, <<"pkg/a.go">>, <<BETTERER_RESULTS_PATH, "pkg/a.go">> }
commitToBackport == "c0ffee"
sender == "author"

VARIABLES
    args,                 \* BackportArgs: the payload's fields and labelsToAdd as passed
    pc,                   \* position in backport() / backportOnce()
    calls,                \* log of the external calls made, in order: those before
                          \* the loop and those of the latest branch attempt
    attempts,             \* outcome of each branch attempt that has ended, in order
    labelsToAdd,          \* the caller's labelsToAdd array (mutated by the loop)
    matchedLabels,        \* local of backport()
    backportBaseToHead,   \* local of backport()
    idx,                  \* position of the for loop in Object.entries(backportBaseToHead)
    error,                \* the error thrown last ("" when none)
    caught,               \* backportOnce: the error caught at line 119 ("" when none)
    cherryPickInProgress, \* working copy: a cherry-pick is stopped half way
    unmerged,             \* working copy: paths in unmerged state
    createRsp             \* response of pulls.create in the current attempt

bvars ==
    << args, pc, calls, attempts, labelsToAdd, matchedLabels, backportBaseToHead, idx, error,
       caught, cherryPickInProgress, unmerged, createRsp >>

vars == << bvars, evars >>

NoRsp == [number |-> 0, requested_reviewers |-> FALSE]

Init ==
    /\ \E labels \in LabelLists :
       \E ev \in Events(labels) :
       \E merged \in BOOLEAN, rest \in Rest, n \in PullRequestNumbers :
           args = [ action |-> ev.action, label |-> ev.label, labels |-> labels,
                    merged |-> merged, milestone |-> rest.milestone,
                    merged_by |-> rest.merged_by,
                    number |-> n, labelsToAdd |-> rest.labelsToAdd ]
    /\ pc = "start"
    /\ calls = <<>>
    /\ attempts = <<>>
    /\ labelsToAdd = args.labelsToAdd
    /\ matchedLabels = <<>>
    /\ backportBaseToHead = <<>>
    /\ idx = 0
    /\ error = ""
    /\ caught = ""
    /\ cherryPickInProgress = FALSE
    /\ unmerged = <<>>
    /\ createRsp = NoRsp
    /\ SyncIdle

\* One external call, as logged: issue is the pull request or issue a GitHub
\* call is about (0 for none), attempt the loop iteration it was made in (0
\* before the loop), ok whether it returned (FALSE: it threw), out its stdout.
Call(op, a, issue, ok) ==
    [op |-> op, args |-> a, issue |-> issue, attempt |-> idx, ok |-> ok, out |-> ""]

Log(c) == calls' = Append(calls, c)

labelsString == args.labels
pullRequestNumber == args.number

\* backport.ts:263-269
matches == \E i \in 1..Len(labelsString) : labelRegExpTest(labelsString[i])

(***************************************************************************)
(* backport(), lines 253-260: the event gate.                              *)
(***************************************************************************)
PassesGate(action, payloadLabel) ==
    \/ action = "closed"
    \/ labelRegExpTest(payloadLabel)
    \/ Includes(backportLabels, payloadLabel)

Gate ==
    /\ pc = "start"
    /\ IF PassesGate(args.action, args.label)
       THEN /\ pc' = "authorize"
            /\ matchedLabels' = getMatchedBackportLabels(labelsString, backportLabels)
       ELSE /\ pc' = "returned"
            /\ UNCHANGED matchedLabels
    /\ UNCHANGED << evars, args, attempts, calls, labelsToAdd, backportBaseToHead, idx, error,
                    caught, cherryPickInProgress, unmerged, createRsp >>

(***************************************************************************)
(* backport(), lines 270-307: the authorization policy.                    *)
(***************************************************************************)
\* (the back quotes of the source's text are written ' here)
MissingLabelsCommentBody ==
    << "Hello @" \o sender \o "!",
       "Backport pull requests need to be either:",
       "* Pull requests which address bugs,",
       "* Urgent fixes which need product approval, in order to get merged,",
       "* Docs changes.\n",
       "Please, if the current pull request addresses a bug fix, label it with the 'type/bug' label.",
       "If it already has the product approval, please add the 'product-approved' label. For docs changes, please add the 'type/docs' label.",
       "If none of the above applies, please consider removing the backport label and target the next major/minor release.",
       "Thanks!" >>

RejectedWhenMarked(m, matched, names) ==
    m /\ Len(matched) = 0 /\ Includes(names, missingLabels)

\* the condition of line 270
Rejected(m, matched, names) ==
    m /\ Len(matched) = 0 /\ ~Includes(names, missingLabels)

MarkerStaleUnapproved(m, matched, names) ==
    m /\ Len(matched) = 0 /\ Includes(names, missingLabels)

\* the condition of line 300
MarkerStale(m, matched, names) ==
    m /\ Len(matched) # 0 /\ Includes(names, missingLabels)

\* lines 277-292: github.issues.createComment
RejectComment ==
    /\ pc = "authorize"
    /\ Rejected(matches, matchedLabels, labelsString)
    /\ \E ok \in BOOLEAN :
        /\ Log(Call("issues.createComment", MissingLabelsCommentBody, pullRequestNumber, ok))
        /\ pc' = IF ok THEN "rejectLabel" ELSE "threw"
        /\ error' = IF ok THEN error ELSE "issues.createComment"
    /\ UNCHANGED << evars, args, attempts, labelsToAdd, matchedLabels, backportBaseToHead, idx,
                    caught, cherryPickInProgress, unmerged, createRsp >>

\* lines 293-299: github.issues.addLabels, then return
RejectLabel ==
    /\ pc = "rejectLabel"
    /\ \E ok \in BOOLEAN :
        /\ Log(Call("issues.addLabels", <<missingLabels>>, pullRequestNumber, ok))
        /\ pc' = IF ok THEN "returned" ELSE "threw"
        /\ error' = IF ok THEN error ELSE "issues.addLabels"
    /\ UNCHANGED << evars, args, attempts, labelsToAdd, matchedLabels, backportBaseToHead, idx,
                    caught, cherryPickInProgress, unmerged, createRsp >>

\* lines 300-307: github.issues.removeLabel
RemoveMissingLabel ==
    /\ pc = "authorize"
    /\ ~Rejected(matches, matchedLabels, labelsString)
    /\ MarkerStale(matches, matchedLabels, labelsString)
    /\ \E ok \in BOOLEAN :
        /\ Log(Call("issues.removeLabel", <<missingLabels>>, pullRequestNumber, ok))
        /\ pc' = IF ok THEN "checkMerged" ELSE "threw"
        /\ error' = IF ok THEN error ELSE "issues.removeLabel"
    /\ UNCHANGED << evars, args, attempts, labelsToAdd, matchedLabels, backportBaseToHead, idx,
                    caught, cherryPickInProgress, unmerged, createRsp >>

\* neither branch of the if / else if
Authorized ==
    /\ pc = "authorize"
    /\ ~Rejected(matches, matchedLabels, labelsString)
    /\ ~MarkerStale(matches, matchedLabels, labelsString)
    /\ pc' = "checkMerged"
    /\ UNCHANGED << evars, args, attempts, calls, labelsToAdd, matchedLabels, backportBaseToHead, idx,
                    error, caught, cherryPickInProgress, unmerged, createRsp >>

(***************************************************************************)
(* backport(), lines 309-325: merged check and label resolution.           *)
(***************************************************************************)
IsMergedOrAny(merged) == TRUE

\* line 309
IsMerged(merged) == merged

Resolve ==
    /\ pc = "checkMerged"
    /\ IF ~IsMerged(args.merged)
       THEN /\ pc' = "returned"
            /\ UNCHANGED backportBaseToHead
       ELSE /\ backportBaseToHead' =
                 getBackportBaseToHead(args.action, args.label, args.labels, pullRequestNumber)
            /\ pc' = IF Len(backportBaseToHead') = 0 THEN "returned" ELSE "cloneRepo"
    /\ UNCHANGED << evars, args, attempts, calls, labelsToAdd, matchedLabels, idx, error,
                    caught, cherryPickInProgress, unmerged, createRsp >>

\* line 331: await cloneRepo({ token, owner, repo }), outside any try
CloneRepo ==
    /\ pc = "cloneRepo"
    /\ \E ok \in BOOLEAN :
        /\ Log(Call("cloneRepo", <<>>, 0, ok))
        /\ pc' = IF ok THEN "loop" ELSE "threw"
        /\ error' = IF ok THEN error ELSE "cloneRepo"
        /\ idx' = IF ok THEN 1 ELSE idx
    /\ UNCHANGED << evars, args, attempts, labelsToAdd, matchedLabels, backportBaseToHead,
                    caught, cherryPickInProgress, unmerged, createRsp >>


(***************************************************************************)
(* backport(), lines 333-347: the head of the for loop over                *)
(* Object.entries(backportBaseToHead).                                     *)
(***************************************************************************)
base == backportBaseToHead[idx].base
head == backportBaseToHead[idx].head

\* The log keeps the calls made before the loop and drops, when the next
\* iteration starts, those of the iteration that ended; attempts keeps what
\* became of that iteration.
BeforeLoop(log) == SelectSeq(log, LAMBDA c : c.attempt = 0)

AttemptOutcome(log, i) ==
    [ base |-> backportBaseToHead[i].base,
      head |-> backportBaseToHead[i].head,
      created |-> \E k \in 1..Len(log) :
          log[k].attempt = i /\ log[k].op = "pulls.create" /\ log[k].ok,
      reported |-> \E k \in 1..Len(log) :
          log[k].attempt = i /\ log[k].op = "issues.createComment" /\ log[k].ok,
      labelled |-> \E k \in 1..Len(log) :
          /\ log[k].attempt = i /\ log[k].op = "issues.addLabels" /\ log[k].ok
          /\ log[k].args = <<"backport-failed">> ]

\* the iteration idx ends (normally or by a throw that leaves backport())
EndAttempt == attempts' = Append(attempts, AttemptOutcome(calls', idx))

\* line 345: labelsToAdd.push(...matchedLabels)
NextBranch ==
    /\ pc = "loop"
    /\ IF idx <= Len(backportBaseToHead)
       THEN /\ labelsToAdd' = labelsToAdd \o matchedLabels
            /\ pc' = "switchBase"
            /\ calls' = BeforeLoop(calls)
       ELSE /\ pc' = "returned"
            /\ UNCHANGED << labelsToAdd, calls >>
    /\ error' = ""
    /\ caught' = ""
    /\ createRsp' = NoRsp
    /\ UNCHANGED << evars, args, attempts, matchedLabels, backportBaseToHead, idx,
                    cherryPickInProgress, unmerged >>

(***************************************************************************)
(* backportOnce (backport.ts:72-184).  exec() rejects when the command     *)
(* exits non-zero; its message names the tool and the exit code only, so   *)
(* the model names each error after the call that threw it.                *)
(***************************************************************************)
Failure(op, a) == IF op = "git" THEN "git " \o a[1] ELSE op

AwaitUnchecked(op, a, issue, ok, next) ==
    /\ Log(Call(op, a, issue, ok))
    /\ pc' = next
    /\ error' = error

\* An awaited call inside the try of line 348: it returns and control moves
\* to `next`, or it throws and the catch of line 362 takes over.
Await(op, a, issue, ok, next) ==
    /\ Log(Call(op, a, issue, ok))
    /\ pc' = IF ok THEN next ELSE "catch"
    /\ error' = IF ok THEN error ELSE Failure(op, a)

\* line 115: git switch <base>; git refuses to switch while a cherry-pick is stopped
GitSwitchBase ==
    /\ pc = "switchBase"
    /\ \E ok \in BOOLEAN :
        /\ cherryPickInProgress => ~ok
        /\ Await("git", <<"switch", base>>, 0, ok, "switchCreate")
    /\ UNCHANGED << evars, args, attempts, labelsToAdd, matchedLabels, backportBaseToHead, idx, caught,
                    cherryPickInProgress, unmerged, createRsp >>

\* line 116: git switch --create <head>
GitSwitchCreate ==
    /\ pc = "switchCreate"
    /\ \E ok \in BOOLEAN :
        Await("git", <<"switch", "--create", head>>, 0, ok, "cherryPick")
    /\ UNCHANGED << evars, args, attempts, labelsToAdd, matchedLabels, backportBaseToHead, idx, caught,
                    cherryPickInProgress, unmerged, createRsp >>

\* lines 117-119: git cherry-pick -x <commit>.  When it fails git leaves the
\* paths u unmerged; the cherry-pick is then stopped half way (always when
\* paths are unmerged; an empty pick also stops with none, a bad revision
\* stops nothing).
GitCherryPick ==
    /\ pc = "cherryPick"
    /\ \/ /\ Log(Call("git", <<"cherry-pick", "-x", commitToBackport>>, 0, TRUE))
          /\ pc' = "push"
          /\ UNCHANGED << error, caught, cherryPickInProgress, unmerged >>
       \/ \E u \in UnmergedLists, stopped \in BOOLEAN :
          /\ u # <<>> => stopped
          /\ Log(Call("git", <<"cherry-pick", "-x", commitToBackport>>, 0, FALSE))
          /\ pc' = "isBettererConflict"
          /\ error' = "git cherry-pick -x"
          /\ caught' = "git cherry-pick -x"
          /\ cherryPickInProgress' = stopped
          /\ unmerged' = u
    /\ UNCHANGED << evars, args, attempts, labelsToAdd, matchedLabels, backportBaseToHead, idx, createRsp >>

\* line 120: await isBettererConflict(): getExecOutput('git', ['diff', ...]).
\* A throw in the catch block leaves backportOnce at once.
IsBettererConflict ==
    /\ pc = "isBettererConflict"
    /\ \E ok \in BOOLEAN :
        /\ Log([Call("git", <<"diff", "--name-only", "--diff-filter=U">>, 0, ok)
                    EXCEPT !.out = IF ok THEN NameOnlyOutput(unmerged) ELSE ""])
        /\ pc' = IF ~ok THEN "catch"
                 ELSE IF isBettererConflict(NameOnlyOutput(unmerged)) THEN "betterer"
                 ELSE "abort"
        /\ error' = IF ok THEN error ELSE "git diff"
    /\ UNCHANGED << evars, args, attempts, labelsToAdd, matchedLabels, backportBaseToHead, idx, caught,
                    cherryPickInProgress, unmerged, createRsp >>

\* fixBettererConflict (lines 108-113), first call: betterer({ update: true })
Betterer ==
    /\ pc = "betterer"
    /\ \E ok \in BOOLEAN :
        /\ Log(Call("betterer", <<"update">>, 0, ok))
        /\ pc' = IF ok THEN "gitAdd" ELSE "abortFix"
        /\ error' = IF ok THEN error ELSE "betterer"
    /\ UNCHANGED << evars, args, attempts, labelsToAdd, matchedLabels, backportBaseToHead, idx, caught,
                    cherryPickInProgress, unmerged, createRsp >>

\* line 110: git add .betterer.results
GitAdd ==
    /\ pc = "gitAdd"
    /\ \E ok \in BOOLEAN :
        /\ Log(Call("git", <<"add", BETTERER_RESULTS_PATH>>, 0, ok))
        /\ pc' = IF ok THEN "continue" ELSE "abortFix"
        /\ error' = IF ok THEN error ELSE "git add"
        /\ unmerged' = IF ok THEN <<>> ELSE unmerged
    /\ UNCHANGED << evars, args, attempts, labelsToAdd, matchedLabels, backportBaseToHead, idx, caught,
                    cherryPickInProgress, createRsp >>

\* line 112: git -c core.editor=true cherry-pick --continue
GitCherryPickContinue ==
    /\ pc = "continue"
    /\ \E ok \in BOOLEAN :
        /\ Log(Call("git", <<"-c", "core.editor=true", "cherry-pick", "--continue">>, 0, ok))
        /\ pc' = IF ok THEN "push" ELSE "abortFix"
        /\ error' = IF ok THEN error ELSE "git cherry-pick --continue"
        /\ cherryPickInProgress' = IF ok THEN FALSE ELSE cherryPickInProgress
    /\ UNCHANGED << evars, args, attempts, labelsToAdd, matchedLabels, backportBaseToHead, idx, caught,
                    unmerged, createRsp >>

\* `throw error` of line 125: the catch parameter of line 123 shadows the one
\* of line 119, so the error thrown is the one the fix raised.
ThrownAfterFix(outer, inner) == inner

\* git cherry-pick --abort: fails when no cherry-pick is in progress
AbortCall(ok) ==
    /\ cherryPickInProgress \/ ~ok
    /\ Log(Call("git", <<"cherry-pick", "--abort">>, 0, ok))
    /\ cherryPickInProgress' = IF ok THEN FALSE ELSE cherryPickInProgress
    /\ unmerged' = IF ok THEN <<>> ELSE unmerged
    /\ pc' = "catch"

\* lines 123-126: the fix threw
AbortAfterFix ==
    /\ pc = "abortFix"
    /\ \E ok \in BOOLEAN :
        /\ AbortCall(ok)
        /\ error' = IF ok THEN ThrownAfterFix(caught, error) ELSE "git cherry-pick --abort"
    /\ UNCHANGED << evars, args, attempts, labelsToAdd, matchedLabels, backportBaseToHead, idx, caught,
                    createRsp >>

\* lines 127-130: not the betterer conflict
AbortOther ==
    /\ pc = "abort"
    /\ \E ok \in BOOLEAN :
        /\ AbortCall(ok)
        /\ error' = IF ok THEN caught ELSE "git cherry-pick --abort"
    /\ UNCHANGED << evars, args, attempts, labelsToAdd, matchedLabels, backportBaseToHead, idx, caught,
                    createRsp >>

\* line 133: git push --set-upstream origin <head>
GitPush ==
    /\ pc = "push"
    /\ \E ok \in BOOLEAN :
        Await("git", <<"push", "--set-upstream", "origin", head>>, 0, ok, "pullsCreate")
    /\ UNCHANGED << evars, args, attempts, labelsToAdd, matchedLabels, backportBaseToHead, idx, caught,
                    cherryPickInProgress, unmerged, createRsp >>

\* the number GitHub gives the pull request of this attempt
NewPullNumber == pullRequestNumber + idx

\* lines 134-143: github.pulls.create
PullsCreate ==
    /\ pc = "pullsCreate"
    /\ \E ok \in BOOLEAN :
        /\ Await("pulls.create", <<base, head>>, NewPullNumber, ok, "milestone")
        /\ IF ok
           THEN \E rr \in BOOLEAN :
                  createRsp' = [number |-> NewPullNumber, requested_reviewers |-> rr]
           ELSE UNCHANGED createRsp
    /\ UNCHANGED << evars, args, attempts, labelsToAdd, matchedLabels, backportBaseToHead, idx, caught,
                    cherryPickInProgress, unmerged >>

\* An optional call of backportOnce: made when cond holds, skipped otherwise.
Optional(cond, op, a, next) ==
    IF cond
    THEN \E ok \in BOOLEAN : Await(op, a, createRsp.number, ok, next)
    ELSE pc' = next /\ UNCHANGED << calls, error >>

\* lines 145-153: sync milestone
SyncMilestone ==
    /\ pc = "milestone"
    /\ Optional(args.milestone, "issues.update", <<"milestone">>, "deleteReviewRequest")
    /\ UNCHANGED << evars, args, attempts, labelsToAdd, matchedLabels, backportBaseToHead, idx, caught,
                    cherryPickInProgress, unmerged, createRsp >>

\* lines 155-164: remove default reviewers
DeleteReviewRequest ==
    /\ pc = "deleteReviewRequest"
    /\ Optional(createRsp.requested_reviewers, "pulls.deleteReviewRequest", <<>>,
                "createReviewRequest")
    /\ UNCHANGED << evars, args, attempts, labelsToAdd, matchedLabels, backportBaseToHead, idx, caught,
                    cherryPickInProgress, unmerged, createRsp >>

\* lines 166-174: assign to merger
CreateReviewRequest ==
    /\ pc = "createReviewRequest"
    /\ Optional(args.merged_by, "pulls.createReviewRequest", <<"merger">>, "addLabels")
    /\ UNCHANGED << evars, args, attempts, labelsToAdd, matchedLabels, backportBaseToHead, idx, caught,
                    cherryPickInProgress, unmerged, createRsp >>

\* lines 176-183; backportOnce then returns and the loop goes on
AddLabels ==
    /\ pc = "addLabels"
    /\ Optional(Len(labelsToAdd) > 0, "issues.addLabels", labelsToAdd, "loop")
    /\ idx' = IF pc' = "loop" THEN idx + 1 ELSE idx
    /\ IF pc' = "loop" THEN EndAttempt ELSE UNCHANGED attempts
    /\ UNCHANGED << evars, args, labelsToAdd, matchedLabels, backportBaseToHead, caught,
                    cherryPickInProgress, unmerged, createRsp >>

(***************************************************************************)
(* backport(), lines 362-386: the catch of the per-branch try.             *)
(***************************************************************************)
\* getFailedBackportCommentBody (lines 186-218); back quotes written '
getFailedBackportCommentBody(b, commit, errorMessage, h) ==
    << "The backport to '" \o b \o "' failed:",
       "'''",
       errorMessage,
       "'''",
       "To backport manually, run these commands in your terminal:",
       "'''bash",
       "# Fetch latest updates from GitHub",
       "git fetch",
       "# Create a new branch",
       "git switch --create " \o h \o " origin/" \o b,
       "# Cherry-pick the merged commit of this pull request and resolve the conflicts",
       "git cherry-pick -x " \o commit,
       "# Push it to GitHub",
       "git push --set-upstream origin " \o h,
       "git switch main",
       "# Remove the local backport branch",
       "git branch -D " \o h,
       "'''",
       "Then, create a pull request where the 'base' branch is '" \o b
           \o "' and the 'compare'/'head' branch is '" \o h \o "'." >>

\* lines 363-378: github.issues.createComment; a throw here leaves backport()
FailedComment ==
    /\ pc = "catch"
    /\ \E ok \in BOOLEAN :
        /\ Log(Call("issues.createComment",
                    getFailedBackportCommentBody(base, commitToBackport, error, head),
                    pullRequestNumber, ok))
        /\ pc' = IF ok THEN "failedLabel" ELSE "threw"
        /\ error' = IF ok THEN error ELSE "issues.createComment"
        /\ IF ok THEN UNCHANGED attempts ELSE EndAttempt
    /\ UNCHANGED << evars, args, labelsToAdd, matchedLabels, backportBaseToHead, idx, caught,
                    cherryPickInProgress, unmerged, createRsp >>

\* lines 380-385: github.issues.addLabels(['backport-failed'])
FailedLabel ==
    /\ pc = "failedLabel"
    /\ \E ok \in BOOLEAN :
        /\ Log(Call("issues.addLabels", <<"backport-failed">>, pullRequestNumber, ok))
        /\ pc' = IF ok THEN "loop" ELSE "threw"
        /\ error' = IF ok THEN error ELSE "issues.addLabels"
        /\ idx' = IF ok THEN idx + 1 ELSE idx
        /\ EndAttempt
    /\ UNCHANGED << evars, args, labelsToAdd, matchedLabels, backportBaseToHead, caught,
                    cherryPickInProgress, unmerged, createRsp >>

Next ==
    \/ Gate
    \/ RejectComment
    \/ RejectLabel
    \/ RemoveMissingLabel
    \/ Authorized
    \/ Resolve
    \/ CloneRepo
    \/ NextBranch
    \/ GitSwitchBase
    \/ GitSwitchCreate
    \/ GitCherryPick
    \/ IsBettererConflict
    \/ Betterer
    \/ GitAdd
    \/ GitCherryPickContinue
    \/ AbortAfterFix
    \/ AbortOther
    \/ GitPush
    \/ PullsCreate
    \/ SyncMilestone
    \/ DeleteReviewRequest
    \/ CreateReviewRequest
    \/ AddLabels
    \/ FailedComment
    \/ FailedLabel

Spec == Init /\ [][Next]_vars

(***************************************************************************)
(* The enterprise action alone: backport() is not running.                 *)
(***************************************************************************)
NoArgs ==
    [ action |-> "", label |-> "", labels |-> <<>>, merged |-> FALSE, milestone |-> FALSE,
      merged_by |-> FALSE, number |-> 0, labelsToAdd |-> <<>> ]

BackportIdle ==
    /\ args = NoArgs
    /\ pc = "idle"
    /\ calls = <<>>
    /\ attempts = <<>>
    /\ labelsToAdd = <<>>
    /\ matchedLabels = <<>>
    /\ backportBaseToHead = <<>>
    /\ idx = 0
    /\ error = ""
    /\ caught = ""
    /\ cherryPickInProgress = FALSE
    /\ unmerged = <<>>
    /\ createRsp = NoRsp

InitSync == InitEnterprise /\ BackportIdle

NextSync ==
    \/ Validate /\ UNCHANGED bvars
    \/ GetSourceBranch /\ UNCHANGED bvars
    \/ GetTargetBranch /\ UNCHANGED bvars
    \/ GetMainBranch /\ UNCHANGED bvars
    \/ CreateRef /\ UNCHANGED bvars
    \/ UpdateRef /\ UNCHANGED bvars

SpecSync == InitSync /\ [][NextSync]_vars


(***************************************************************************)
(* Properties.  The vocabulary of the claims, stated on the inputs and on  *)
(* the log of calls.                                                       *)
(***************************************************************************)
ApprovalLabels == {"type/docs", "type/bug", "product-approved"}

\* the labels of the universe that match the backport pattern
MatchesPattern == [l \in LabelUniverse \cup {""} |-> labelRegExpTest(l)]

HasBackportLabel == \E l \in Range(args.labels) : MatchesPattern[l]
HasApprovalLabel == \E l \in Range(args.labels) : l \in ApprovalLabels
HasMissingLabels == "missing-labels" \in Range(args.labels)

\* the event gate: the action is closed, or the triggering label is a
\* backport label or an approval label
GateOpen ==
    \/ args.action = "closed"
    \/ MatchesPattern[args.label]
    \/ args.label \in ApprovalLabels

Ended == pc \in {"returned", "threw"}

IsMissingLabelsComment(c) ==
    /\ c.op = "issues.createComment"
    /\ c.issue = args.number
    /\ c.args = MissingLabelsCommentBody

IsAddMissingLabels(c) ==
    /\ c.op = "issues.addLabels"
    /\ c.issue = args.number
    /\ c.args = <<"missing-labels">>

IsRemoveMissingLabels(c) ==
    /\ c.op = "issues.removeLabel"
    /\ c.issue = args.number
    /\ c.args = <<"missing-labels">>

\* a call of a branch attempt: the clone, a git command, the betterer run, or
\* a call about a new pull request
IsBackportWork(c) ==
    c.op \in { "cloneRepo", "git", "betterer", "pulls.create", "issues.update",
               "pulls.deleteReviewRequest", "pulls.createReviewRequest" }
    \/ (c.op = "issues.addLabels" /\ c.issue # args.number)

IsFailureReport(c) ==
    /\ c.issue = args.number
    /\ \/ c.op = "issues.createComment" /\ ~IsMissingLabelsComment(c)
       \/ c.op = "issues.addLabels" /\ c.args = <<"backport-failed">>

Some(P(_)) == \E k \in 1..Len(calls) : P(calls[k])
None(P(_)) == \A k \in 1..Len(calls) : ~P(calls[k])

NeedsApproval == HasBackportLabel /\ ~HasApprovalLabel /\ ~HasMissingLabels

\* C1 as claimed: in ANY invocation on a pull request that has a backport
\* label, no approval label and no missing-labels marker, the invocation that
\* returns has posted the explanatory comment and added missing-labels, and
\* has done nothing else.
C1_AsClaimed ==
    (NeedsApproval /\ pc = "returned") =>
        /\ Len(calls) = 2
        /\ IsMissingLabelsComment(calls[1]) /\ calls[1].ok
        /\ IsAddMissingLabels(calls[2]) /\ calls[2].ok

\* C1 (amended): in every invocation that passes the event gate on a pull
\* request that has a backport label, no approval label and no missing-labels
\* marker, whether merged or not, the only calls ever made are the
\* explanatory comment and then, once it is posted, the addition of
\* missing-labels; the invocation that returns has made both, and no clone,
\* git command or pull-request creation ever happens.
C1_RejectionPath ==
    (NeedsApproval /\ GateOpen) =>
        /\ Len(calls) <= 2
        /\ Len(calls) >= 1 => IsMissingLabelsComment(calls[1])
        /\ Len(calls) = 2 => calls[1].ok /\ IsAddMissingLabels(calls[2])
        /\ None(IsBackportWork) /\ attempts = <<>>
        /\ pc = "returned" => Len(calls) = 2 /\ calls[2].ok
        /\ pc = "threw" => ~calls[Len(calls)].ok
        /\ pc \in {"start", "authorize", "rejectLabel", "returned", "threw"}

C1_Witness ==
    /\ NeedsApproval /\ GateOpen /\ args.merged
    /\ pc = "returned"
    /\ Len(calls) = 2 /\ IsAddMissingLabels(calls[2]) /\ calls[2].ok

\* C2 as claimed: whenever a branch attempt is executed (the repository is
\* cloned, a git command runs, a pull request is created), the pull request
\* carries an approval label.
C2_AsClaimed == Some(IsBackportWork) => HasApprovalLabel


(***************************************************************************)
(* The calls of a branch attempt.                                          *)
(***************************************************************************)
IsGit(c, a) == c.op = "git" /\ c.args = a

IsCherryPick(c) == IsGit(c, <<"cherry-pick", "-x", commitToBackport>>)
IsUnmergedList(c) == IsGit(c, <<"diff", "--name-only", "--diff-filter=U">>)
IsBettererUpdate(c) == c.op = "betterer" /\ c.args = <<"update">>
IsAddSnapshot(c) == IsGit(c, <<"add", ".betterer.results">>)
IsContinue(c) == IsGit(c, <<"-c", "core.editor=true", "cherry-pick", "--continue">>)
IsAbort(c) == IsGit(c, <<"cherry-pick", "--abort">>)
IsSwitchBase(c) ==
    c.attempt > 0 /\ IsGit(c, <<"switch", backportBaseToHead[c.attempt].base>>)
IsPush(c) ==
    /\ c.attempt > 0
    /\ IsGit(c, <<"push", "--set-upstream", "origin", backportBaseToHead[c.attempt].head>>)
IsPullsCreate(c) ==
    /\ c.attempt > 0 /\ c.op = "pulls.create"
    /\ c.args = <<backportBaseToHead[c.attempt].base, backportBaseToHead[c.attempt].head>>
IsFailureComment(c) ==
    /\ c.attempt > 0 /\ c.op = "issues.createComment" /\ c.issue = args.number
    /\ c.args[1] = "The backport to '" \o backportBaseToHead[c.attempt].base \o "' failed:"
IsFailedLabel(c) ==
    /\ c.attempt > 0 /\ c.op = "issues.addLabels" /\ c.issue = args.number
    /\ c.args = <<"backport-failed">>

\* the attempt the log shows is over (the loop moved on, or backport() ended)
AttemptOver == pc = "loop" \/ Ended

\* the call after the k-th, if one was made, is a P; and it has been made by
\* the time the attempt is over
Then(k, P(_)) ==
    /\ Len(calls) > k => P(calls[k + 1])
    /\ AttemptOver => Len(calls) > k

\* the n calls after the k-th were made and returned
Returned(k, n) == \A j \in (k + 1)..(k + n) : Len(calls) >= j /\ calls[j].ok

\* git listed the snapshot path as the only unmerged file
OnlySnapshotUnmerged(c) == c.out = ".betterer.results\n"

\* the k-th call is the listing of the unmerged files after a failed cherry-pick
ConflictListed(k) ==
    /\ k > 1 /\ k <= Len(calls)
    /\ IsCherryPick(calls[k - 1]) /\ ~calls[k - 1].ok
    /\ IsUnmergedList(calls[k]) /\ calls[k].ok

\* C3: after a failed cherry-pick whose unmerged files are exactly the
\* snapshot path, the calls that follow are, each once the one before has
\* returned: the betterer update, git add of the snapshot, cherry-pick
\* --continue, the push, the creation of the pull request.  After a failed
\* cherry-pick with any other unmerged files, the next call is cherry-pick
\* --abort, the attempt makes no push and creates no pull request, and the
\* call after the abort is the failure comment on the original pull request.
C3_ConflictPolicy ==
    \A k \in 1..Len(calls) : ConflictListed(k) =>
        IF OnlySnapshotUnmerged(calls[k])
        THEN /\ Then(k, IsBettererUpdate)
             /\ Returned(k, 1) => Then(k + 1, IsAddSnapshot)
             /\ Returned(k, 2) => Then(k + 2, IsContinue)
             /\ Returned(k, 3) => Then(k + 3, IsPush)
             /\ Returned(k, 4) => Then(k + 4, IsPullsCreate)
        ELSE /\ Then(k, IsAbort)
             /\ \A j \in k..Len(calls) : ~IsPush(calls[j]) /\ ~IsPullsCreate(calls[j])
             /\ Len(calls) > k => Then(k + 1, IsFailureComment)

C3_Witness ==
    \E k \in 1..Len(calls) :
        /\ ConflictListed(k) /\ OnlySnapshotUnmerged(calls[k])
        /\ Returned(k, 5) /\ IsPullsCreate(calls[k + 5])

\* an entry of the map has been attempted: its iteration ended, or the log
\* shows its git switch <base>
Attempted(i) ==
    \/ i <= Len(attempts)
    \/ \E k \in 1..Len(calls) : calls[k].attempt = i /\ IsSwitchBase(calls[k])

Cloned == \E k \in 1..Len(calls) : calls[k].op = "cloneRepo" /\ calls[k].ok

\* C4 as claimed: when the invocation has ended, every entry of the map has
\* been attempted, whatever became of the entries before it.
C4_AsClaimed ==
    (Ended /\ Cloned) => \A i \in 1..Len(backportBaseToHead) : Attempted(i)

\* a call of steps 1-8 of the per-branch execution
IsStep(c) == IsBackportWork(c)

\* C5 as claimed: when the invocation has ended and a call of steps 1-8 has
\* failed, the failure comment and the backport-failed label are on the
\* original pull request.
C5_AsClaimed ==
    (Ended /\ \E k \in 1..Len(calls) : IsStep(calls[k]) /\ ~calls[k].ok) =>
        /\ \E k \in 1..Len(calls) :
              calls[k].op = "issues.createComment" /\ IsFailureReport(calls[k])
        /\ \E k \in 1..Len(calls) :
              calls[k].op = "issues.addLabels" /\ IsFailureReport(calls[k])


\* what the backport pattern captures in each label of the universe
ExpectedParse(l) ==
    CASE l = "backport v1" ->
            [found |-> TRUE, base |-> "v1", head |-> "backport-" \o ToString(args.number) \o "-to-v1"]
      [] l = "backport v2" ->
            [found |-> TRUE, base |-> "v2", head |-> "backport-" \o ToString(args.number) \o "-to-v2"]
      [] l = "backport v1 h1" -> [found |-> TRUE, base |-> "v1", head |-> "h1"]
      [] OTHER -> [found |-> FALSE, base |-> "", head |-> ""]

\* map has an entry for every label of names that matches, keyed by its base,
\* the value being that of the last label naming the base, and nothing else
ResolvedFrom(map, names) ==
    /\ \A i \in 1..Len(names) : ExpectedParse(names[i]).found =>
          \E e \in 1..Len(map) : map[e].base = ExpectedParse(names[i]).base
    /\ \A e \in 1..Len(map) :
          \E i \in 1..Len(names) :
             /\ ExpectedParse(names[i]).found
             /\ ExpectedParse(names[i]).base = map[e].base
             /\ ExpectedParse(names[i]).head = map[e].head
             /\ \A j \in (i + 1)..Len(names) :
                   ExpectedParse(names[j]).found => ExpectedParse(names[j]).base # map[e].base
    /\ \A e, f \in 1..Len(map) : map[e].base = map[f].base => e = f

\* C6: the map the label resolution of a merged pull request produces: for
\* closed, one entry per base named by a backport label of the PR, with the
\* explicit head or backport-<PR#>-to-<base>, the last label of a base
\* winning; for labeled, the same of the added label alone; else empty.
C6_LabelResolution ==
    [][ (pc = "checkMerged" /\ args.merged) =>
            CASE args.action = "closed" -> ResolvedFrom(backportBaseToHead', args.labels)
              [] args.action = "labeled" -> ResolvedFrom(backportBaseToHead', <<args.label>>)
              [] OTHER -> backportBaseToHead' = <<>> ]_vars

C6_Witness ==
    /\ pc = "cloneRepo" /\ args.action = "closed"
    /\ \E i, j \in 1..Len(args.labels) :
          i < j /\ args.labels[i] = "backport v1 h1" /\ args.labels[j] = "backport v1"
    /\ backportBaseToHead = << [base |-> "v1", head |-> "backport-42-to-v1"] >>

Approved == args.merged /\ HasBackportLabel /\ HasApprovalLabel

ApprovedPath ==
    /\ None(IsMissingLabelsComment) /\ None(IsAddMissingLabels)
    /\ pc \notin {"start", "authorize"} => (Some(IsRemoveMissingLabels) <=> HasMissingLabels)
    /\ pc = "returned" =>
          /\ Len(attempts) = Len(backportBaseToHead)
          /\ \A i \in 1..Len(attempts) : attempts[i].base = backportBaseToHead[i].base

\* C7 as claimed: in ANY invocation on a merged pull request with a backport
\* label and an approval label there is no rejection, missing-labels is
\* removed exactly if it was present, and every entry of the map is attempted.
C7_AsClaimed == Approved => ApprovedPath

\* C7 (amended): in every invocation that passes the event gate on a merged
\* pull request with a backport label and an approval label there is no
\* rejection and missing-labels is removed exactly if it was present; the
\* invocation that returns has attempted every entry of the map, in order, and
\* an invocation ends otherwise only by the error of a call that failed.
C7_ApprovedPath ==
    (Approved /\ GateOpen) =>
        /\ ApprovedPath
        /\ pc = "threw" => Len(calls) > 0 /\ ~calls[Len(calls)].ok

C7_Witness ==
    /\ Approved /\ GateOpen /\ HasMissingLabels
    /\ pc = "returned"
    /\ IsRemoveMissingLabels(calls[1]) /\ calls[1].ok
    /\ Len(attempts) = Len(backportBaseToHead)
    /\ Len(attempts) > 0 /\ attempts[1].created

\* the BackportMap the event resolves to is empty
ResolvedMapEmpty ==
    CASE args.action = "closed" -> ~HasBackportLabel
      [] args.action = "labeled" -> ~MatchesPattern[args.label]
      [] OTHER -> TRUE

\* C8 as claimed: an invocation whose map is empty makes no call at all.
C8_AsClaimed == ResolvedMapEmpty => calls = <<>>

\* C8 (amended): an invocation whose map is empty runs no git command, does
\* not clone, creates no pull request and reports no failure; the only calls
\* it can make are those of the authorization step, before the map is
\* resolved: the missing-labels comment and label, or the removal of
\* missing-labels.
C8_EmptyMap ==
    ResolvedMapEmpty =>
        /\ \A k \in 1..Len(calls) :
              \/ IsMissingLabelsComment(calls[k])
              \/ IsAddMissingLabels(calls[k])
              \/ IsRemoveMissingLabels(calls[k])
        /\ attempts = <<>>
        /\ pc \in {"start", "authorize", "rejectLabel", "checkMerged", "returned", "threw"}

C8_Witness ==
    /\ ResolvedMapEmpty /\ args.merged
    /\ pc = "returned"
    /\ Len(calls) = 1 /\ IsRemoveMissingLabels(calls[1]) /\ calls[1].ok

\* C9: an invocation on a pull request that is not merged never clones, runs
\* no git command, creates no pull request, and produces no backport-failed
\* comment or label.
C9_UnmergedNeverBackported ==
    ~args.merged =>
        /\ None(IsBackportWork)
        /\ None(IsFailureReport)
        /\ attempts = <<>>

C9_Witness ==
    /\ ~args.merged /\ args.action = "closed"
    /\ HasBackportLabel /\ HasApprovalLabel
    /\ pc = "returned"

(***************************************************************************)
(* The enterprise sync.                                                    *)
(***************************************************************************)
\* the required inputs are there
Validated ==
    inputs.source_branch # "" /\ inputs.pr_number # "" /\ inputs.source_sha # ""

SyncEnded == syncPc \in {"returned", "threw"}

\* the branches the ref can be taken from, in order of preference
Candidates ==
    <<inputs.source_branch>>
        \o (IF inputs.target_branch = "" THEN <<>> ELSE <<inputs.target_branch>>)
        \o <<"main">>

\* the first candidate that exists in the enterprise repository ("" if none)
FirstExisting ==
    LET I == { i \in 1..Len(Candidates) : Candidates[i] \in branches }
    IN  IF I = {} THEN "" ELSE Candidates[CHOOSE i \in I : \A j \in I : i <= j]

\* prc-<pr_number>-<source_sha>/<source_branch>, as a branch of the repository
SyncRef ==
    "refs/heads/prc-" \o inputs.pr_number \o "-" \o inputs.source_sha
        \o "/" \o inputs.source_branch

RefAt(sha) == [ref |-> SyncRef, sha |-> sha] \in refs

\* no ref has been created or moved
RefsUntouched == \A r \in refs : r.sha \in OldShas

IsRefCall(c) == c.op \in {"git.createRef", "git.updateRef"}
RefCalls == SelectSeq(syncCalls, IsRefCall)

IsCreateRef(c, sha) ==
    c.op = "git.createRef" /\ c.args = <<SyncRef, sha>>
IsForceUpdateRef(c, sha) ==
    /\ c.op = "git.updateRef"
    /\ c.args = << "heads/prc-" \o inputs.pr_number \o "-" \o inputs.source_sha
                       \o "/" \o inputs.source_branch, sha, "force" >>

MissingInputMessage ==
    IF inputs.source_branch = "" THEN "Missing source branch"
    ELSE IF inputs.pr_number = "" THEN "Missing OSS PR number"
    ELSE "Missing OSS source SHA"

\* C11: when source_branch, pr_number or source_sha is missing, the action
\* makes no getBranch, createRef or updateRef call and changes no ref: its one
\* step is to fail, with the error naming the first missing input.
C11_InputValidation ==
    ~Validated =>
        /\ syncCalls = <<>>
        /\ RefsUntouched
        /\ branch = NoBranch
        /\ syncPc \in {"start", "threw"}
        /\ syncPc = "threw" => syncError = MissingInputMessage

\* source_branch and pr_number are there, source_sha is missing, and the
\* enterprise repository has the source branch: the action has failed
C11_Witness ==
    /\ inputs.source_branch # "" /\ inputs.pr_number # "" /\ inputs.source_sha = ""
    /\ inputs.source_branch \in branches
    /\ syncPc = "threw" /\ syncError = "Missing OSS source SHA"
    /\ syncCalls = <<>>

(***************************************************************************)
(* The error a failed attempt surfaces.                                    *)
(***************************************************************************)
\* the k-th call is a step of the auto-resolution (regenerate, stage,
\* cherry-pick --continue) and it failed
FixFailed(k) ==
    /\ k <= Len(calls) /\ ~calls[k].ok
    /\ IsBettererUpdate(calls[k]) \/ IsAddSnapshot(calls[k]) \/ IsContinue(calls[k])

\* the error message a failure comment carries
ErrorMessageOf(c) == c.args[3]

\* the message of the error a failed git cherry-pick -x throws (E1)
CherryPickError == Failure("git", <<"cherry-pick", "-x", commitToBackport>>)

FailedPickReported(j, k) ==
    /\ j < k /\ k <= Len(calls)
    /\ IsCherryPick(calls[j]) /\ ~calls[j].ok
    /\ IsFailureComment(calls[k]) /\ calls[k].attempt = calls[j].attempt

\* C13 as claimed: an attempt whose git cherry-pick -x failed has run git
\* cherry-pick --abort before its failure is reported, and a branch attempt
\* starts (git switch <base>) with no cherry-pick in progress in the working
\* copy.
C13_AsClaimed ==
    /\ \A j, k \in 1..Len(calls) :
          FailedPickReported(j, k) => \E a \in (j + 1)..(k - 1) : IsAbort(calls[a])
    /\ pc = "switchBase" => ~cherryPickInProgress

(***************************************************************************)
(* The states of a branch attempt, read off the log of its calls.          *)
(***************************************************************************)
IsSwitchCreate(c) ==
    c.attempt > 0 /\ IsGit(c, <<"switch", "--create", backportBaseToHead[c.attempt].head>>)

\* a call of steps 6-8, made on the pull request the attempt created
IsFollowUp(c) ==
    /\ c.attempt > 0 /\ c.issue # args.number
    /\ c.op \in { "issues.update", "pulls.deleteReviewRequest",
                  "pulls.createReviewRequest", "issues.addLabels" }

\* the call before the k-th is a P that returned
After(k, P(_)) == k > 1 /\ P(calls[k - 1]) /\ calls[k - 1].ok

\* no two calls of the attempt in the log are both a P
AtMostOnce(P(_)) ==
    \A j, k \in 1..Len(calls) : (P(calls[j]) /\ P(calls[k])) => j = k

\* C14 as claimed: no attempt both creates a pull request and is reported as
\* failed (failure comment and backport-failed label) on the original PR.
C14_AsClaimed ==
    \A i \in 1..Len(attempts) :
        ~(attempts[i].created /\ attempts[i].reported /\ attempts[i].labelled)

\* C14 (amended): a branch attempt starts with git switch <base>; the
\* cherry-pick follows the creation of the head branch; the unmerged files are
\* listed only after a failed cherry-pick, the auto-resolution runs only on the
\* snapshot conflict, each of its steps after the one before returned; the
\* push follows only a cherry-pick or a cherry-pick --continue that returned,
\* the creation of the pull request only a push that returned; cherry-pick,
\* each step of the auto-resolution, push and creation happen at most once;
\* the failure comment follows a call that failed (or the abort) and nothing
\* follows it but the backport-failed label.  An attempt that created its pull
\* request is reported as failed exactly when a later call on that pull
\* request (milestone, reviewers, labels) failed.
C14_AttemptStateMachine ==
    /\ \A k \in 1..Len(calls) :
          /\ IsSwitchBase(calls[k]) => (k = 1 \/ calls[k - 1].attempt = 0)
          /\ IsCherryPick(calls[k]) => After(k, IsSwitchCreate)
          /\ IsUnmergedList(calls[k]) =>
                k > 1 /\ IsCherryPick(calls[k - 1]) /\ ~calls[k - 1].ok
          /\ IsBettererUpdate(calls[k]) =>
                After(k, IsUnmergedList) /\ OnlySnapshotUnmerged(calls[k - 1])
          /\ IsAddSnapshot(calls[k]) => After(k, IsBettererUpdate)
          /\ IsContinue(calls[k]) => After(k, IsAddSnapshot)
          /\ IsPush(calls[k]) => After(k, IsCherryPick) \/ After(k, IsContinue)
          /\ IsPullsCreate(calls[k]) => After(k, IsPush)
          /\ IsFollowUp(calls[k]) => After(k, IsPullsCreate) \/ After(k, IsFollowUp)
          /\ IsFailureComment(calls[k]) =>
                /\ k > 1 /\ calls[k - 1].attempt > 0
                /\ ~calls[k - 1].ok \/ IsAbort(calls[k - 1])
                /\ \A j \in (k + 1)..Len(calls) : j = k + 1 /\ IsFailedLabel(calls[j])
                /\ (\E c \in 1..k : IsPullsCreate(calls[c]) /\ calls[c].ok) =>
                       IsFollowUp(calls[k - 1])
          /\ IsFailedLabel(calls[k]) => After(k, IsFailureComment)
    /\ AtMostOnce(IsCherryPick) /\ AtMostOnce(IsUnmergedList)
    /\ AtMostOnce(IsBettererUpdate) /\ AtMostOnce(IsAddSnapshot) /\ AtMostOnce(IsContinue)
    /\ AtMostOnce(IsAbort) /\ AtMostOnce(IsPush) /\ AtMostOnce(IsPullsCreate)
    /\ AtMostOnce(IsFailureComment) /\ AtMostOnce(IsFailedLabel)

\* an attempt went through the auto-resolution, pushed, created its pull
\* request, then failed to label it and was reported as failed
C14_Witness ==
    /\ pc = "loop"
    /\ Len(attempts) > 0
    /\ attempts[Len(attempts)].created
    /\ attempts[Len(attempts)].reported /\ attempts[Len(attempts)].labelled
    /\ Some(IsContinue)
    /\ \E k \in 1..Len(calls) :
          IsFollowUp(calls[k]) /\ calls[k].op = "issues.addLabels" /\ ~calls[k].ok

(***************************************************************************)
(* Remediation of a rejected pull request.                                 *)
(***************************************************************************)
\* the event adds the one approval label of a merged pull request that
\* carries a backport label and, from its rejection, the missing-labels marker
Remediation ==
    /\ args.action = "labeled" /\ args.label \in ApprovalLabels
    /\ args.merged /\ HasBackportLabel /\ HasMissingLabels
    /\ \A l \in Range(args.labels) : l \in ApprovalLabels => l = args.label

\* C15 as claimed: the invocation for such an event that returns has removed
\* missing-labels and has executed a branch attempt for the base of every
\* backport label of the pull request.
C15_AsClaimed ==
    (Remediation /\ pc = "returned") =>
        /\ Some(IsRemoveMissingLabels)
        /\ \A l \in Range(args.labels) : ExpectedParse(l).found =>
              \E i \in 1..Len(attempts) : attempts[i].base = ExpectedParse(l).base

(***************************************************************************)
(* The labels of a new pull request.                                       *)
(***************************************************************************)
\* the call is the addLabels of step 8, on the pull request of an attempt
IsAddLabelsToNew(c) == IsFollowUp(c) /\ c.op = "issues.addLabels"

\* the caller-supplied labels followed by the approval labels matched on the
\* original pull request
ExpectedLabels ==
    args.labelsToAdd \o SelectSeq(args.labels, LAMBDA l : l \in ApprovalLabels)

\* C16 as claimed: the label list every addLabels call for a new pull request
\* is given is the caller-supplied labels followed by the approval labels
\* matched on the original pull request, whatever the position of the entry.
C16_AsClaimed ==
    \A k \in 1..Len(calls) : IsAddLabelsToNew(calls[k]) => calls[k].args = ExpectedLabels

=============================================================================
